---- MODULE Spec2Model ----
(***************************************************************************)
(* Model of ImgProcessor (src/main.py): the directory scanner, the         *)
(* dimension probe, the upscaler, the height-bounded downscaler, the       *)
(* format normalizer and the orchestrator process_supermarket_images.      *)
(*                                                                         *)
(* A file name is a sequence of one-character strings, so that Path.suffix *)
(* and str.lower are computed and not assumed.  A directory entry is a     *)
(* record: a subdirectory, a regular file that no decoder accepts, or an   *)
(* image with a width and a height.  The arithmetic of the downscaler is   *)
(* IEEE-754 binary64, carried out on bit strings.                          *)
(***************************************************************************)
EXTENDS Integers, Sequences, FiniteSets, TLC

VARIABLES
    listing,        \* os.listdir(img_dir): the entry names, in listing order
    fs,             \* name -> entry (kind, valid, w, h): the directory's content
    isDir,          \* whether img_dir denotes an existing directory
    min_height,     \* the min_height argument of the run
    pc,             \* position inside process_supermarket_images
    img_fps,        \* the list returned by list_image_fps
    idx,            \* index of img_fp in img_fps (the for loop)
    current_width,  \* local of the loop body
    current_height, \* local of the loop body
    ret,            \* "none" while running, then "True", "False" or "raised"
    run,            \* number of the current run of the pipeline
    entry,          \* fs as it was when the current run started
    log,            \* every call made so far and its outcome, in order
    last            \* the last direct call of a method and what it returned

vars == <<listing, fs, isDir, min_height, pc, img_fps, idx, current_width,
          current_height, ret, run, entry, log, last>>

----------------------------------------------------------------------------
(* Bounds of the model *)

MaxFiles == 2       \* entries in the directory
MaxRuns == 2        \* successive runs of the pipeline on the directory

----------------------------------------------------------------------------
(* Program constants *)

DefaultMinHeight == 400     \* min_height: int = 400
ScaleFactor == 2            \* self.sr.setModel("fsrcnn", 2)
MantBits == 53              \* significand of a Python float

Ext_png == <<".", "p", "n", "g">>
Ext_jpg == <<".", "j", "p", "g">>
Ext_jpeg == <<".", "j", "p", "e", "g">>
Ext_PNG == <<".", "P", "N", "G">>

\* valid_exts=[".png", ".jpg"] at the call in process_supermarket_images
PipelineExts == {Ext_png, Ext_jpg}
\* the list of the normalization test: [".png", ".jpeg"]
ConvertExts == {Ext_png, Ext_jpeg}

----------------------------------------------------------------------------
(* Names: Path(fn).suffix and str.lower() *)

UpperToLower == [P |-> "p", N |-> "n", G |-> "g", J |-> "j", A |-> "a"]

LowerChar(c) == IF c \in DOMAIN UpperToLower THEN UpperToLower[c] ELSE c

Lower(s) == [i \in 1..Len(s) |-> LowerChar(s[i])]

\* str.rfind("."): the last index of a dot, 0 when there is none (1-based)
RFindDot(name) ==
    LET dots == {i \in 1..Len(name) : name[i] = "."}
    IN IF dots = {} THEN 0 ELSE CHOOSE i \in dots : \A j \in dots : j <= i

\* pathlib: i = name.rfind('.'); name[i:] if 0 < i < len(name) - 1 else ''
Suffix(name) ==
    LET i == RFindDot(name)
    IN IF 1 < i /\ i < Len(name) THEN SubSeq(name, i, Len(name)) ELSE <<>>

----------------------------------------------------------------------------
(* Directory entries *)

SubDir == [kind |-> "dir", valid |-> FALSE, w |-> 0, h |-> 0]
Corrupt == [kind |-> "file", valid |-> FALSE, w |-> 0, h |-> 0]
Img(w, h) == [kind |-> "file", valid |-> TRUE, w |-> w, h |-> h]

IsFile(files, fp) == fp \in DOMAIN files /\ files[fp].kind = "file"

----------------------------------------------------------------------------
(* Python float arithmetic of the downscaler, on bit strings (most          *)
(* significant bit first), because a significand does not fit a model       *)
(* integer.                                                                 *)

RECURSIVE Log2Shift(_, _)
\* the least p >= 1 with a * 2^p >= b, for 0 < a < b
Log2Shift(a, b) == IF 2 * a >= b THEN 1 ELSE 1 + Log2Shift(2 * a, b)

RECURSIVE LeadShift(_, _)
\* a * 2^(p-1) for that p: the remainder in front of the first 1 bit of a / b
LeadShift(a, b) == IF 2 * a >= b THEN a ELSE LeadShift(2 * a, b)

\* the 8 bits of d < 256
ByteBits(d) == [j \in 1..8 |-> (d \div 2^(8 - j)) % 2]

RECURSIVE DivBits(_, _, _, _)
\* the next 8 * n bits of the binary expansion of r / b (r < b), appended to
\* acc, and the remainder: long division, 8 bits a step
DivBits(r, b, n, acc) ==
    IF n = 0 THEN [bits |-> acc, rem |-> r]
    ELSE DivBits((256 * r) % b, b, n - 1, acc \o ByteBits((256 * r) \div b))

RECURSIVE IncBits(_, _)
\* bits + 1, the carry entering at bit i; a carry out of the top adds a bit
IncBits(bits, i) ==
    IF i = 0 THEN <<1>> \o bits
    ELSE IF bits[i] = 0 THEN [bits EXCEPT ![i] = 1]
         ELSE IncBits([bits EXCEPT ![i] = 0], i - 1)

\* Round-half-to-even to MantBits significant bits.  sticky: the value has
\* nonzero bits below the ones given.  m: the bits kept; drop: how many low
\* bits of the input were dropped (the exponent moves up by that much).
RoundBits(bits, sticky) ==
    IF Len(bits) <= MantBits THEN [m |-> bits, drop |-> 0]
    ELSE LET keep == SubSeq(bits, 1, MantBits)
             rest == SubSeq(bits, MantBits + 1, Len(bits))
             half == rest[1] = 1
             more == sticky \/ \E i \in 2..Len(rest) : rest[i] = 1
             up   == half /\ (more \/ keep[MantBits] = 1)
             inc  == IF up THEN IncBits(keep, MantBits) ELSE keep
         IN IF Len(inc) > MantBits
            THEN [m |-> SubSeq(inc, 1, MantBits), drop |-> Len(rest) + 1]
            ELSE [m |-> inc, drop |-> Len(rest)]

RECURSIVE IntToBits(_)
IntToBits(n) == IF n = 0 THEN <<>> ELSE IntToBits(n \div 2) \o <<n % 2>>

RECURSIVE BitsToInt(_, _)
\* the integer written by the first n bits
BitsToInt(bits, n) == IF n = 0 THEN 0 ELSE 2 * BitsToInt(bits, n - 1) + bits[n]

\* the low n bits of v, most significant first
LowBits(v, n) == [j \in 1..n |-> (v \div 2^(n - j)) % 2]

RECURSIVE MulBits(_, _, _, _)
\* bits[1..hi] * k + carry, exactly: from the low end, up to 8 bits a step
MulBits(bits, k, hi, carry) ==
    IF hi = 0 THEN IntToBits(carry)
    ELSE LET n == IF hi < 8 THEN hi ELSE 8
             v == BitsToInt(SubSeq(bits, hi - n + 1, hi), n) * k + carry
         IN MulBits(bits, k, hi - n, v \div 2^n) \o LowBits(v, n)

\* the bits division carries past the point: enough to round a significand
FractionBytes == (MantBits + 3) \div 8

\* scaling_factor = img_height / height: int / int, correctly rounded.
\* The float is m * 2^e, m a bit string of MantBits bits; both arguments > 0.
TrueDiv(img_height, height) ==
    IF img_height < height
    THEN LET p == Log2Shift(img_height, height)
             d == DivBits(LeadShift(img_height, height), height, FractionBytes, <<>>)
             q == RoundBits(d.bits, d.rem # 0)
         IN [m |-> q.m, e |-> q.drop - (p - 1 + 8 * FractionBytes)]
    ELSE LET d == DivBits(img_height % height, height, FractionBytes,
                          IntToBits(img_height \div height))
             q == RoundBits(d.bits, d.rem # 0)
         IN [m |-> q.m, e |-> q.drop - 8 * FractionBytes]

\* int(width * scaling_factor): the product rounded to a float, then truncated
IntOfProduct(width, f) ==
    LET r == RoundBits(MulBits(f.m, width, Len(f.m), 0), FALSE)
        n == Len(r.m) + f.e + r.drop
    IN IF n <= 0 THEN 0 ELSE BitsToInt(r.m, n)

\* new_width = int(width * (img_height / height))
NewWidth(width, img_height, height) ==
    IntOfProduct(width, TrueDiv(img_height, height))

----------------------------------------------------------------------------
(* The methods of ImgProcessor.  A method that writes returns the file      *)
(* system it leaves and its result: "True", "False", or "raised" when an    *)
(* exception leaves it.                                                     *)

\* list_image_fps: no is_file test, lower() on the suffix only
list_image_fps(names, dirOk, valid_exts) ==
    IF ~dirOk THEN <<>>
    ELSE SelectSeq(names, LAMBDA fn : Lower(Suffix(fn)) \in valid_exts)

\* get_image_size_from_fp: {} for a path that is no regular file; Image.open
\* raises on a file it cannot identify
get_image_size_from_fp(files, img_fp) ==
    IF ~IsFile(files, img_fp) THEN [res |-> "empty", w |-> 0, h |-> 0]
    ELSE IF ~files[img_fp].valid THEN [res |-> "raised", w |-> 0, h |-> 0]
    ELSE [res |-> "ok", w |-> files[img_fp].w, h |-> files[img_fp].h]

\* What the imwrite of the upscaler, and the save of the downscaler, can do
UpscaleEnv == {"ok", "nowrite", "raise"}
SaveEnv == {"ok", "fail_clean", "fail_truncated"}

\* a variant that scales the width only
UpsampledWidthOnly(e) == Img(e.w * ScaleFactor, e.h)

\* sr.upsample(image): both dimensions times the scale of the model
Upsampled(e) == Img(e.w * ScaleFactor, e.h * ScaleFactor)

\* upscale_image.  cv2.imread gives None for what it cannot read and
\* sr.upsample(None) raises; the model itself may raise ("raise"); the result
\* of cv2.imwrite is ignored, so a write that fails ("nowrite") returns True.
upscale_image(files, img_input_fp, img_output_fp, env) ==
    IF ~IsFile(files, img_input_fp) \/ ~files[img_input_fp].valid \/ env = "raise"
    THEN [ret |-> "raised", files |-> files]
    ELSE IF env = "nowrite" THEN [ret |-> "True", files |-> files]
    ELSE [ret |-> "True",
          files |-> [files EXCEPT ![img_output_fp] = Upsampled(files[img_input_fp])]]

\* a variant with the comparison turned around
TooSmallFlipped(height, img_height) == height > img_height

\* the guard of the downscaler: height < img_height is refused
TooSmall(height, img_height) == height < img_height

\* resized_image.save(img_output_fp): the encoder is chosen by the lower-cased
\* extension of the output path, and a path without a known one is refused
SaveExts == {Ext_png, Ext_jpg, Ext_jpeg}

\* resize_down_image_height.  Image.open raises on what it cannot read;
\* img.resize raises on a width of 0; save raises on an output path whose
\* extension names no encoder, and may fail before or after it has truncated
\* the output file.
resize_down_image_height(files, img_input_fp, img_output_fp, img_height, env) ==
    IF ~IsFile(files, img_input_fp) \/ ~files[img_input_fp].valid
    THEN [ret |-> "raised", files |-> files]
    ELSE LET width == files[img_input_fp].w
             height == files[img_input_fp].h
         IN IF TooSmall(height, img_height) THEN [ret |-> "False", files |-> files]
            ELSE LET new_width == NewWidth(width, img_height, height)
                 IN IF \/ new_width = 0
                       \/ Lower(Suffix(img_output_fp)) \notin SaveExts
                       \/ env = "fail_clean"
                    THEN [ret |-> "raised", files |-> files]
                    ELSE IF env = "fail_truncated"
                    THEN [ret |-> "raised",
                          files |-> [files EXCEPT ![img_output_fp] = Corrupt]]
                    ELSE [ret |-> "True",
                          files |-> [files EXCEPT ![img_output_fp] =
                                         Img(new_width, img_height)]]

\* The names Image.save has an encoder registered under, and the one asked for
RegisteredFormats == {"BMP", "GIF", "JPEG", "PNG", "TIFF"}
ConvertFormat == "JPG"

\* convert_img_to_jpg.  save looks the format up (SAVE[format.upper()])
\* before it opens the output: an unregistered name raises KeyError and
\* nothing is written.  The dimensions survive a conversion.
convert_img_to_jpg(files, img_input_fp, img_output_fp) ==
    IF ~IsFile(files, img_input_fp) \/ ~files[img_input_fp].valid
    THEN [ret |-> "raised", files |-> files]
    ELSE IF ConvertFormat \notin RegisteredFormats
    THEN [ret |-> "raised", files |-> files]
    ELSE [ret |-> "True",
          files |-> [files EXCEPT ![img_output_fp] = files[img_input_fp]]]

\* variants of the tests of the loop body: not strict, and turned around
NeedsUpscaleOrEqual(height, min) == height <= min
NeedsDownscaleOrEqual(height, min) == height >= min
NeedsDownscaleFlipped(height, min) == height < min

\* the tests of the loop body
NeedsUpscale(height, min) == height < min
NeedsDownscale(height, min) == height > min
NeedsConvert(img_fp) == Suffix(img_fp) \in ConvertExts

----------------------------------------------------------------------------
(* The inputs: what the directory holds, and the arguments *)

NameSet ==
    { <<"a">> \o Ext_png, <<"b">> \o Ext_PNG, <<"c">> \o Ext_jpg,
      <<"d">> \o Ext_jpeg }

\* (width, height) of the images, around the min_height values below
SampleSizes ==
    { <<800, 400>>, <<800, 1600>>, <<145, 464>>, <<1, 800>>, <<100, 200>>,
      <<100, 100>>, <<100, 300>> }

Contents == {SubDir, Corrupt} \cup {Img(s[1], s[2]) : s \in SampleSizes}

\* the min_height arguments tried
MinHeights == {DefaultMinHeight \div 2, DefaultMinHeight}

Range(f) == {f[i] : i \in DOMAIN f}

NoCall ==
    [op |-> "none", inp |-> <<>>, out |-> <<>>, arg |-> 0, exts |-> {},
     ret |-> "none", result |-> <<>>, before |-> <<>>]

\* a directory of at most MaxFiles entries, with names and contents from the
\* given sets, before anything has run
InitWith(names, contents, dirs) ==
    /\ listing \in { l \in UNION {[1..n -> names] : n \in 0..MaxFiles} :
                       \A i, j \in DOMAIN l : i # j => l[i] # l[j] }
    /\ fs \in [Range(listing) -> contents]
    /\ isDir \in dirs
    /\ min_height \in MinHeights
    /\ pc = "start"
    /\ img_fps = <<>>
    /\ idx = 0
    /\ current_width = 0
    /\ current_height = 0
    /\ ret = "none"
    /\ run = 1
    /\ entry = fs
    /\ log = <<>>
    /\ last = NoCall

Init == InitWith(NameSet, Contents, BOOLEAN)

----------------------------------------------------------------------------
(* process_supermarket_images, statement by statement *)

Call(op, fp, res, w, h) ==
    [run |-> run, op |-> op, fp |-> fp, res |-> res, w |-> w, h |-> h]

\* a variant that accepts every path
os_path_isdir_always(dirOk) == TRUE

\* os.path.isdir(img_dir)
os_path_isdir(dirOk) == dirOk

\* the end of an iteration of the for loop: the next file, or return True
NextFile ==
    IF idx < Len(img_fps)
    THEN idx' = idx + 1 /\ pc' = "probe1" /\ ret' = ret
    ELSE idx' = idx /\ pc' = "done" /\ ret' = "True"

\* an exception leaves process_supermarket_images: nothing catches it
Raise == idx' = idx /\ pc' = "done" /\ ret' = "raised"

\* the directory test, then the scan
Start ==
    /\ pc = "start"
    /\ IF ~os_path_isdir(isDir)
       THEN /\ pc' = "done"
            /\ ret' = "False"
            /\ UNCHANGED <<img_fps, idx, log>>
       ELSE LET fps == list_image_fps(listing, isDir, PipelineExts)
            IN /\ img_fps' = fps
               /\ log' = Append(log, Call("scan", <<>>, "ok", 0, 0))
               /\ IF fps = <<>>
                  THEN pc' = "done" /\ ret' = "True" /\ idx' = 0
                  ELSE pc' = "probe1" /\ ret' = ret /\ idx' = 1
    /\ UNCHANGED <<listing, fs, isDir, min_height, current_width,
                   current_height, run, entry, last>>

\* the first probe; "if not img_size: continue"
Probe1 ==
    /\ pc = "probe1"
    /\ LET fp == img_fps[idx]
           r == get_image_size_from_fp(fs, fp)
           logged == Append(log, Call("probe1", fp, r.res, r.w, r.h))
       IN CASE r.res = "empty" ->
                 /\ log' = Append(logged, Call("end", fp, "skipped", 0, 0))
                 /\ NextFile
                 /\ UNCHANGED <<current_width, current_height>>
            [] r.res = "raised" ->
                 /\ log' = logged
                 /\ Raise
                 /\ UNCHANGED <<current_width, current_height>>
            [] OTHER ->
                 /\ log' = logged
                 /\ current_width' = r.w
                 /\ current_height' = r.h
                 /\ pc' = "upscale"
                 /\ UNCHANGED <<idx, ret>>
    /\ UNCHANGED <<listing, fs, isDir, min_height, img_fps, run, entry, last>>

\* "if current_height < min_height": upscale in place
UpscaleStep ==
    /\ pc = "upscale"
    /\ LET fp == img_fps[idx]
       IN IF NeedsUpscale(current_height, min_height)
          THEN \E env \in UpscaleEnv :
                 \E r \in {upscale_image(fs, fp, fp, env)} :
                    /\ fs' = r.files
                    /\ log' = Append(log, Call("upscale", fp,
                                  IF r.ret = "raised" THEN "raised"
                                  ELSE IF r.files # fs THEN "ok" ELSE "nowrite",
                                  0, 0))
                    /\ IF r.ret = "raised" THEN Raise
                       ELSE pc' = "probe2" /\ UNCHANGED <<idx, ret>>
          ELSE /\ pc' = "probe2"
               /\ UNCHANGED <<fs, log, idx, ret>>
    /\ UNCHANGED <<listing, isDir, min_height, img_fps, current_width,
                   current_height, run, entry, last>>

\* the second probe; "if not img_size: continue"
Probe2 ==
    /\ pc = "probe2"
    /\ LET fp == img_fps[idx]
           r == get_image_size_from_fp(fs, fp)
           logged == Append(log, Call("probe2", fp, r.res, r.w, r.h))
       IN CASE r.res = "empty" ->
                 /\ log' = Append(logged, Call("end", fp, "skipped", 0, 0))
                 /\ NextFile
                 /\ UNCHANGED <<current_width, current_height>>
            [] r.res = "raised" ->
                 /\ log' = logged
                 /\ Raise
                 /\ UNCHANGED <<current_width, current_height>>
            [] OTHER ->
                 /\ log' = logged
                 /\ current_width' = r.w
                 /\ current_height' = r.h
                 /\ pc' = "resize"
                 /\ UNCHANGED <<idx, ret>>
    /\ UNCHANGED <<listing, fs, isDir, min_height, img_fps, run, entry, last>>

\* "if current_height > min_height": downscale in place to min_height
ResizeStep ==
    /\ pc = "resize"
    /\ LET fp == img_fps[idx]
       IN IF NeedsDownscale(current_height, min_height)
          THEN \E env \in SaveEnv :
                 \E r \in {resize_down_image_height(fs, fp, fp, min_height, env)} :
                    /\ fs' = r.files
                    /\ log' = Append(log, Call("resize", fp, r.ret, 0, 0))
                    /\ IF r.ret = "raised" THEN Raise
                       ELSE pc' = "convert" /\ UNCHANGED <<idx, ret>>
          ELSE /\ pc' = "convert"
               /\ UNCHANGED <<fs, log, idx, ret>>
    /\ UNCHANGED <<listing, isDir, min_height, img_fps, current_width,
                   current_height, run, entry, last>>

\* "if Path(img_fp).suffix in [".png", ".jpeg"]": convert in place; then the
\* iteration ends
ConvertStep ==
    /\ pc = "convert"
    /\ LET fp == img_fps[idx]
       IN IF NeedsConvert(fp)
          THEN \E r \in {convert_img_to_jpg(fs, fp, fp)} :
               LET logged == Append(log, Call("convert", fp, r.ret, 0, 0))
               IN /\ fs' = r.files
                  /\ IF r.ret = "raised"
                     THEN log' = logged /\ Raise
                     ELSE /\ log' = Append(logged, Call("end", fp, "done", 0, 0))
                          /\ NextFile
          ELSE /\ fs' = fs
               /\ log' = Append(log, Call("end", fp, "done", 0, 0))
               /\ NextFile
    /\ UNCHANGED <<listing, isDir, min_height, img_fps, current_width,
                   current_height, run, entry, last>>

\* the pipeline is run again on the directory a completed run has left
Rerun ==
    /\ pc = "done"
    /\ ret = "True"
    /\ run < MaxRuns
    /\ run' = run + 1
    /\ pc' = "start"
    /\ ret' = "none"
    /\ entry' = fs
    /\ img_fps' = <<>>
    /\ idx' = 0
    /\ current_width' = 0
    /\ current_height' = 0
    /\ UNCHANGED <<listing, fs, isDir, min_height, log, last>>

Next ==
    \/ Start
    \/ Probe1
    \/ UpscaleStep
    \/ Probe2
    \/ ResizeStep
    \/ ConvertStep
    \/ Rerun

Spec == Init /\ [][Next]_vars

----------------------------------------------------------------------------
(* The methods called on their own: one call on a directory               *)

\* names for the scanner: an unlisted extension, a hidden file, upper case
ListNameSet ==
    { <<"a">> \o Ext_png, <<"b">> \o Ext_PNG, <<"c">> \o Ext_jpg,
      <<"e", ".", "t", "x", "t">>, Ext_png }

ListContents == {SubDir, Corrupt, Img(800, DefaultMinHeight)}

\* the valid_exts lists tried
ExtLists == {PipelineExts, {Ext_png}, {Ext_PNG}, {}}

InitList == InitWith(ListNameSet, ListContents, BOOLEAN)

\* list_image_fps(dir_path, valid_exts)
DirectList ==
    /\ last.op = "none"
    /\ \E exts \in ExtLists :
         last' = [NoCall EXCEPT !.op = "list", !.exts = exts, !.ret = "returned",
                                !.result = list_image_fps(listing, isDir, exts),
                                !.before = fs]
    /\ UNCHANGED <<listing, fs, isDir, min_height, pc, img_fps, idx,
                   current_width, current_height, ret, run, entry, log>>

SpecList == InitList /\ [][DirectList]_vars

\* names and contents for the downscaler, and the img_height arguments tried
ResizeNameSet ==
    { <<"a">> \o Ext_png, <<"c">> \o Ext_jpg, <<"e", ".", "t", "x", "t">> }

ResizeSizes == { <<800, 400>>, <<145, 464>>, <<1, 800>>, <<100, 300>> }

ResizeContents == {SubDir, Corrupt} \cup {Img(s[1], s[2]) : s \in ResizeSizes}

TargetHeights == {300, 400, 500}

InitResize == InitWith(ResizeNameSet, ResizeContents, {TRUE})

\* resize_down_image_height(img_input_fp, img_output_fp, img_height): the
\* output path is the input path or another regular file of the directory
DirectResize ==
    /\ last.op = "none"
    /\ \E inp \in DOMAIN fs, out \in DOMAIN fs, t \in TargetHeights, env \in SaveEnv :
         /\ fs[out].kind = "file"
         /\ \E r \in {resize_down_image_height(fs, inp, out, t, env)} :
              /\ fs' = r.files
              /\ last' = [NoCall EXCEPT !.op = "resize", !.inp = inp, !.out = out,
                                        !.arg = t, !.ret = r.ret, !.before = fs]
    /\ UNCHANGED <<listing, isDir, min_height, pc, img_fps, idx, current_width,
                   current_height, ret, run, entry, log>>

SpecResize == InitResize /\ [][DirectResize]_vars

----------------------------------------------------------------------------
(* Reading the log *)

\* the calls of op on fp during run r
Calls(r, fp, op) ==
    {i \in DOMAIN log : log[i].run = r /\ log[i].fp = fp /\ log[i].op = op}

Called(r, fp, op) == Calls(r, fp, op) # {}

\* op was called on fp during run r and ended with res
CalledWith(r, fp, op, res) == \E i \in Calls(r, fp, op) : log[i].res = res

\* the loop of run r has finished its iteration for fp
Ended(r, fp) == Called(r, fp, "end")

\* the iteration for fp passed both probes and ran to its end
Processed(r, fp) == CalledWith(r, fp, "end", "done")

\* fp was an image when the current run started
WasImage(fp) == fp \in DOMAIN entry /\ entry[fp].kind = "file" /\ entry[fp].valid

Discovered == Range(img_fps)

RewriteOps == {"upscale", "resize", "convert"}

----------------------------------------------------------------------------
(* Claims *)

\* C1: a discovered file whose height on entry is exactly min_height has
\* neither upscale_image nor resize_down_image_height called on it, and keeps
\* its width and height.
C1_ExactHeightUntouched ==
    \A fp \in Discovered :
        (WasImage(fp) /\ entry[fp].h = min_height) =>
            /\ ~Called(run, fp, "upscale")
            /\ ~Called(run, fp, "resize")
            /\ fs[fp].w = entry[fp].w
            /\ fs[fp].h = entry[fp].h

\* C1 witness: the loop has finished a file that entered at min_height
C1_Witness ==
    \E fp \in Discovered :
        WasImage(fp) /\ entry[fp].h = min_height /\ Processed(run, fp)

\* C2 (as claimed): a file that entered higher than min_height and has been
\* processed has height min_height and width floor(W0 * min_height / H0).
C2_DownscaledWidthIsFloor ==
    \A fp \in Discovered :
        (WasImage(fp) /\ entry[fp].h > min_height /\ Processed(run, fp)) =>
            /\ fs[fp].h = min_height
            /\ fs[fp].w = (entry[fp].w * min_height) \div entry[fp].h

\* C3 (as claimed): a file below min_height whose upscale wrote its result is
\* seen twice as high by the second probe, is downscaled to min_height if that
\* exceeds it, and ends at height min_height.
C3_UpscaledEndsAtMinHeight ==
    \A fp \in Discovered :
        (WasImage(fp) /\ entry[fp].h < min_height
                      /\ CalledWith(run, fp, "upscale", "ok")) =>
            /\ \A i \in Calls(run, fp, "probe2") :
                   log[i].h = entry[fp].h * ScaleFactor
            /\ Processed(run, fp) =>
                   /\ entry[fp].h * ScaleFactor > min_height
                          => CalledWith(run, fp, "resize", "True")
                   /\ fs[fp].h = min_height

\* C3 (amended): such a file is seen twice as high by the second probe; once
\* processed, it has been downscaled to exactly min_height if twice its height
\* exceeds min_height, and otherwise has no downscale and stays at twice its
\* height, which is min_height only when it is not below it.
C3_UpscaledOnce ==
    \A fp \in Discovered :
        (WasImage(fp) /\ entry[fp].h < min_height
                      /\ CalledWith(run, fp, "upscale", "ok")) =>
            /\ \A i \in Calls(run, fp, "probe2") :
                   log[i].res = "ok" /\ log[i].h = entry[fp].h * ScaleFactor
            /\ Processed(run, fp) =>
                   IF entry[fp].h * ScaleFactor > min_height
                   THEN /\ CalledWith(run, fp, "resize", "True")
                        /\ fs[fp].h = min_height
                   ELSE /\ ~Called(run, fp, "resize")
                        /\ fs[fp].h = entry[fp].h * ScaleFactor

\* C3 witness: an upscaled file went over min_height and was brought down
C3_Witness ==
    \E fp \in Discovered :
        /\ WasImage(fp) /\ entry[fp].h < min_height
        /\ CalledWith(run, fp, "upscale", "ok")
        /\ entry[fp].h * ScaleFactor > min_height
        /\ Processed(run, fp)

\* C4 (as claimed): a completed file ends at min_height, or at the height it
\* had before the upscale step, or entered at min_height.
C4_FinalHeightThreeWays ==
    \A fp \in Discovered :
        (WasImage(fp) /\ Processed(run, fp)) =>
            \/ fs[fp].h = min_height
            \/ fs[fp].h = entry[fp].h
            \/ entry[fp].h = min_height

\* C4 (amended): ... or ends at twice its entry height, still below
\* min_height (the one upscale succeeded and did not reach min_height).
C4_FinalHeightFourWays ==
    \A fp \in Discovered :
        (WasImage(fp) /\ Processed(run, fp)) =>
            \/ fs[fp].h = min_height
            \/ fs[fp].h = entry[fp].h
            \/ entry[fp].h = min_height
            \/ /\ fs[fp].h = entry[fp].h * ScaleFactor
               /\ fs[fp].h < min_height

\* C4 witness: a completed file that was upscaled once and is still below
\* min_height
C4_Witness ==
    \E fp \in Discovered :
        /\ WasImage(fp) /\ Processed(run, fp)
        /\ CalledWith(run, fp, "upscale", "ok")
        /\ fs[fp].h = entry[fp].h * ScaleFactor
        /\ fs[fp].h < min_height

\* every upscale so far wrote its result (no imwrite failed silently)
EveryUpscaleWrote ==
    \A i \in DOMAIN log : log[i].op = "upscale" => log[i].res = "ok"

\* C5 (as claimed): a run after a completed run, in which nothing failed,
\* calls none of upscale_image, resize_down_image_height, convert_img_to_jpg.
C5_SecondRunNoOp ==
    EveryUpscaleWrote =>
        \A i \in DOMAIN log : log[i].run > 1 => log[i].op \notin RewriteOps

\* C5 (amended): in a run after a completed run, a file that stands at
\* min_height and whose suffix is not one the normalizer takes has none of
\* the three called on it and is left as it was.
C5_SecondRunFixedPoint ==
    run > 1 =>
        \A fp \in Discovered :
            (WasImage(fp) /\ entry[fp].h = min_height /\ ~NeedsConvert(fp)) =>
                /\ \A op \in RewriteOps : ~Called(run, fp, op)
                /\ fs[fp] = entry[fp]

\* C5 witness: the second run has finished a file that the first run had
\* brought to min_height
C5_Witness ==
    /\ run = 2
    /\ \E fp \in Discovered :
           /\ \E op \in {"upscale", "resize"} : Called(1, fp, op)
           /\ WasImage(fp) /\ entry[fp].h = min_height
           /\ Processed(2, fp)

\* C6: resize_down_image_height with img_height above the height of the
\* image returns False and writes nothing.
C6_TooSmallNoWrite ==
    (/\ last.op = "resize"
     /\ last.before[last.inp].kind = "file"
     /\ last.before[last.inp].valid
     /\ last.arg > last.before[last.inp].h) =>
        /\ last.ret = "False"
        /\ fs = last.before

\* C6 witness: such a call, with another file as the output path
C6_Witness ==
    /\ last.op = "resize"
    /\ last.before[last.inp].kind = "file"
    /\ last.before[last.inp].valid
    /\ last.arg > last.before[last.inp].h
    /\ last.out # last.inp
    /\ last.ret = "False"

\* C7 (as claimed): with a valid directory, the run returns True and every
\* file of the scan has had its iteration, whatever failed.
C7_FailureNeverAborts ==
    (pc = "done" /\ isDir) =>
        /\ ret = "True"
        /\ \A fp \in Discovered : Ended(run, fp)

\* C8: with a directory argument that is no directory, the run returns
\* False at once: no scan, no probe, no rewrite, no file changed.
C8_InvalidDirUntouched ==
    ~isDir =>
        /\ log = <<>>
        /\ fs = entry
        /\ pc = "done" => ret = "False"

\* C8 witness: the run has returned on an invalid directory argument while
\* image files exist
C8_Witness ==
    /\ ~isDir
    /\ pc = "done"
    /\ ret = "False"
    /\ \E fp \in DOMAIN fs : fs[fp].kind = "file" /\ fs[fp].valid

\* C9 (as claimed): list_image_fps returns exactly the regular files of the
\* directory whose lower-cased suffix is accepted, each once, and an empty
\* list for a path that is no directory.
C9_ListsExactlyRegularFiles ==
    last.op = "list" =>
        IF isDir
        THEN /\ Range(last.result) =
                  {fn \in Range(listing) :
                      fs[fn].kind = "file" /\ Lower(Suffix(fn)) \in last.exts}
             /\ \A i, j \in DOMAIN last.result :
                    i # j => last.result[i] # last.result[j]
        ELSE last.result = <<>>

\* C10 (as claimed): a processed file whose extension is PNG in any case has
\* had convert_img_to_jpg called on it, after the steps before it; a file
\* whose suffix is ".jpg" never has.
C10_ConvertByExtension ==
    \A fp \in Discovered :
        /\ (Processed(run, fp) /\ Lower(Suffix(fp)) = Ext_png)
               => Called(run, fp, "convert")
        /\ Suffix(fp) = Ext_jpg => ~Called(run, fp, "convert")

====
